---- MODULE Spec2Model ----
(***************************************************************************)
(* UART <-> WebSocket bridge (msu-robotics/uart-bridge).                   *)
(*                                                                         *)
(* Two halves, one module:                                                 *)
(*   - the serial link: UARTManager (uart_manager.py), driven by caller    *)
(*     threads (connect / disconnect / write / the reconnect sequence of   *)
(*     main.py) and by the reader threads it starts;                       *)
(*   - the broadcaster: WebSocketManager (websocket_handler.py), whose     *)
(*     coroutines interleave on one asyncio event loop at their awaits.    *)
(*                                                                         *)
(* Spec    : the serial link with one caller thread (the event-loop thread *)
(*           of main.py, from which every UARTManager call is made).       *)
(* SpecMt  : the serial link with a second thread calling write().         *)
(* SpecCb  : the serial link with a callback that calls disconnect().      *)
(* SpecWs  : the broadcaster.                                              *)
(***************************************************************************)
EXTENDS Integers, Sequences, FiniteSets, TLC

\* ------------------------------------------------------------------ bounds
\* Number of successful serial.Serial(...) opens (handles, hence reader threads).
MaxOpens == 2
\* Number of non-empty chunks the device delivers.
MaxChunks == 2
\* Number of write() payloads the device takes.
MaxWrites == 1
\* Number of broadcast() coroutines.
MaxBroadcasts == 2

None == 0
\* The value of the lock when no thread holds it.
Free == "free"
Handles == 1..MaxOpens
\* Reader thread t is the one started for handle t (uart_manager.py:37-42).
Threads == 1..MaxOpens
Chunks == 1..MaxChunks
Callers == {"c1", "c2"}
\* The thread running the asyncio event loop; main.py calls UARTManager from it.
LoopThread == "c1"
Payloads == {<<72, 101>>, <<1, 2>>}
Sessions == {"A", "B"}
Broadcasts == 1..MaxBroadcasts

VARIABLES
    \* UARTManager fields (uart_manager.py:15-20)
    serial_port, is_open, read_thread, running, lock,
    \* serial.Serial objects: how many were created, which are open
    nopens, hopen,
    \* reader threads: position, the Serial object a device call was entered on,
    \* the chunk held in `data`
    rpc, rh, rdata,
    \* caller threads: position, last return value ("true", "false", "raised"), payload and handle of write(),
    \* whether the caller is inside reconnect_uart
    cpc, cret, cdata, ch, cmode,
    \* the device: payloads handed to it, chunks it has delivered
    devOut, nread,
    \* bridge callback: times each chunk was passed to data_callback, chunks for
    \* which no broadcast could be scheduled, broadcasts scheduled on the loop
    cbCount, dropped, scheduled,
    \* history: outcome of the last completed connect/disconnect, a reader
    \* reported the link failed since the last connect that returned true,
    \* the device raised a read error since the last successful open, link state
    \* at the start of the write in progress and what the device did with it
    lastLink, linkFailed, devFaulted, cstart,
    \* WebSocketManager.active_connections and the sessions' coroutines
    active_connections, spc, sent,
    \* broadcast() coroutines: position, message, snapshot, not yet visited,
    \* connection being sent to, `disconnected`
    bpc, bmsg, bsnap, bleft, bcur, bdisc,
    \* history: a join or leave / another broadcast ran during broadcast b
    bchurn, bover

linkVars == <<serial_port, is_open, read_thread, running, lock, nopens, hopen>>
readerVars == <<rpc, rh, rdata>>
callerVars == <<cpc, cret, cdata, ch, cmode>>
deviceVars == <<devOut, nread>>
bridgeVars == <<cbCount, dropped, scheduled>>
histVars == <<lastLink, linkFailed, devFaulted, cstart>>
wsVars == <<active_connections, spc, sent>>
bcVars == <<bpc, bmsg, bsnap, bleft, bcur, bdisc, bchurn, bover>>
vars == <<linkVars, readerVars, callerVars, deviceVars, bridgeVars, histVars,
          wsVars, bcVars>>

NoStart == [open |-> FALSE, closedCase |-> FALSE, failed |-> FALSE, dev |-> "-"]

Init ==
    /\ serial_port = None
    /\ is_open = FALSE
    /\ read_thread = None
    /\ running = FALSE
    /\ lock = Free
    /\ nopens = 0
    /\ hopen = {}
    /\ rpc = [t \in Threads |-> "idle"]
    /\ rh = [t \in Threads |-> None]
    /\ rdata = [t \in Threads |-> None]
    /\ cpc = [c \in Callers |-> "idle"]
    /\ cret = [c \in Callers |-> "none"]
    /\ cdata = [c \in Callers |-> <<>>]
    /\ ch = [c \in Callers |-> None]
    /\ cmode = [c \in Callers |-> "none"]
    /\ devOut = <<>>
    /\ nread = 0
    /\ cbCount = [k \in Chunks |-> 0]
    /\ dropped = {}
    /\ scheduled = <<>>
    /\ lastLink = "none"
    /\ linkFailed = FALSE
    /\ devFaulted = FALSE
    /\ cstart = [c \in Callers |-> NoStart]
    /\ active_connections = {}
    /\ spc = [s \in Sessions |-> "new"]
    /\ sent = [s \in Sessions |-> <<>>]
    /\ bpc = [b \in Broadcasts |-> "none"]
    /\ bmsg = [b \in Broadcasts |-> <<>>]
    /\ bsnap = [b \in Broadcasts |-> {}]
    /\ bleft = [b \in Broadcasts |-> {}]
    /\ bcur = [b \in Broadcasts |-> "-"]
    /\ bdisc = [b \in Broadcasts |-> {}]
    /\ bchurn = [b \in Broadcasts |-> FALSE]
    /\ bover = [b \in Broadcasts |-> FALSE]

\* ------------------------------------------------------------ UARTManager

\* get_status().connected
StatusConnected == is_open

\* is_connected()
IsConnected == is_open /\ serial_port # None /\ serial_port \in hopen

\* threading.Thread.is_alive() of reader thread t
Alive(t) == rpc[t] \notin {"idle", "done", "crashed"}

\* The open handles that are still referenced: by self.serial_port (sp) or by
\* a call in progress on them (held). serial.Serial is an io.RawIOBase, whose
\* finalizer closes a handle that nothing references any more.
Collected(hs, sp, held) == {h \in hs : h = sp \/ h \in held}

\* The handles on which reader threads ts and caller threads cs are inside a
\* device call.
HeldBy(ts, cs) == {rh[t] : t \in ts} \cup {ch[c] : c \in cs}

\* Where a caller goes when the call it is in returns: back to its caller, or
\* on to the next call of reconnect_uart.
AfterDisconnect(c) == IF cmode[c] = "rc" THEN "rc_conn" ELSE "idle"
AfterConnect(c) == IF cmode[c] = "rc" THEN "rc_status" ELSE "idle"

\* connect() without the test of self.is_open: it opens the device again.
ConnectAcquireNoTest(c) ==
    /\ cpc[c] \in {"idle", "rc_conn"}
    /\ lock = Free
    /\ lock' = c
    /\ cpc' = [cpc EXCEPT ![c] = "c_open"]
    /\ cret' = [cret EXCEPT ![c] = "none"]
    /\ UNCHANGED <<serial_port, is_open, read_thread, running, nopens, hopen,
                   readerVars, cdata, ch, cmode, deviceVars, bridgeVars,
                   histVars, wsVars, bcVars>>

\* connect(): `with self._lock:` and the test of self.is_open.
ConnectAcquire(c) ==
    /\ cpc[c] \in {"idle", "rc_conn"}
    /\ lock = Free
    /\ lock' = c
    /\ IF is_open
         THEN /\ cpc' = [cpc EXCEPT ![c] = "c_ret"]
              /\ cret' = [cret EXCEPT ![c] = "true"]
         ELSE /\ cpc' = [cpc EXCEPT ![c] = "c_open"]
              /\ cret' = [cret EXCEPT ![c] = "none"]
    /\ UNCHANGED <<serial_port, is_open, read_thread, running, nopens, hopen,
                   readerVars, cdata, ch, cmode, deviceVars, bridgeVars,
                   histVars, wsVars, bcVars>>

\* connect(): self.serial_port = serial.Serial(**uart_config); the device opens
\* or serial.Serial raises, and then is_open = False and connect returns False.
ConnectOpen(c) ==
    /\ cpc[c] = "c_open"
    /\ \E ok \in {b \in BOOLEAN : b => nopens < MaxOpens} :
         IF ok
           THEN /\ nopens' = nopens + 1
                /\ hopen' = Collected(hopen \cup {nopens + 1}, nopens + 1,
                                      HeldBy(Threads, Callers))
                /\ serial_port' = nopens + 1
                /\ cpc' = [cpc EXCEPT ![c] = "c_setopen"]
                /\ devFaulted' = FALSE
                /\ UNCHANGED <<is_open, cret>>
           ELSE /\ is_open' = FALSE
                /\ cret' = [cret EXCEPT ![c] = "false"]
                /\ cpc' = [cpc EXCEPT ![c] = "c_ret"]
                /\ UNCHANGED <<nopens, hopen, serial_port, devFaulted>>
    /\ UNCHANGED <<read_thread, running, lock, readerVars, cdata, ch, cmode,
                   deviceVars, bridgeVars, lastLink, linkFailed, cstart, wsVars,
                   bcVars>>

\* connect(): self.is_open = True
ConnectSetOpen(c) ==
    /\ cpc[c] = "c_setopen"
    /\ is_open' = TRUE
    /\ cpc' = [cpc EXCEPT ![c] = "c_setrun"]
    /\ UNCHANGED <<serial_port, read_thread, running, lock, nopens, hopen,
                   readerVars, cret, cdata, ch, cmode, deviceVars, bridgeVars,
                   histVars, wsVars, bcVars>>

\* connect(): self.running = True
ConnectSetRunning(c) ==
    /\ cpc[c] = "c_setrun"
    /\ running' = TRUE
    /\ cpc' = [cpc EXCEPT ![c] = "c_start"]
    /\ UNCHANGED <<serial_port, is_open, read_thread, lock, nopens, hopen,
                   readerVars, cret, cdata, ch, cmode, deviceVars, bridgeVars,
                   histVars, wsVars, bcVars>>

\* connect(): self.read_thread = threading.Thread(...); self.read_thread.start()
ConnectStartThread(c) ==
    /\ cpc[c] = "c_start"
    /\ read_thread' = nopens
    /\ rpc' = [rpc EXCEPT ![nopens] = "t1"]
    /\ cret' = [cret EXCEPT ![c] = "true"]
    /\ cpc' = [cpc EXCEPT ![c] = "c_ret"]
    /\ UNCHANGED <<serial_port, is_open, running, lock, nopens, hopen, rh,
                   rdata, cdata, ch, cmode, deviceVars, bridgeVars, histVars,
                   wsVars, bcVars>>

\* connect(): the `with` block releases the lock and connect returns cret[c];
\* reconnect_uart keeps the value as `success`.
ConnectReturn(c) ==
    /\ cpc[c] = "c_ret"
    /\ lock' = Free
    /\ cpc' = [cpc EXCEPT ![c] = AfterConnect(c)]
    /\ lastLink' = IF cret[c] = "true" THEN "connT" ELSE "connF"
    /\ linkFailed' = IF cret[c] = "true" THEN FALSE ELSE linkFailed
    /\ cret' = [cret EXCEPT ![c] = IF cmode[c] = "rc" THEN @ ELSE "none"]
    /\ UNCHANGED <<serial_port, is_open, read_thread, running, nopens, hopen,
                   readerVars, cdata, ch, cmode, deviceVars, bridgeVars,
                   devFaulted, cstart, wsVars, bcVars>>

\* disconnect(): `with self._lock:` and self.running = False
DisconnectAcquire(c) ==
    /\ cpc[c] \in {"idle", "rc_disc"}
    /\ lock = Free
    /\ lock' = c
    /\ running' = FALSE
    /\ cpc' = [cpc EXCEPT ![c] = "d_join"]
    /\ cret' = [cret EXCEPT ![c] = "none"]
    /\ UNCHANGED <<serial_port, is_open, read_thread, nopens, hopen,
                   readerVars, cdata, ch, cmode, deviceVars, bridgeVars,
                   histVars, wsVars, bcVars>>

\* disconnect(): if read_thread is alive, read_thread.join(timeout=2). The join
\* returns when the thread has ended or when the two seconds are over, so the
\* step is enabled whether or not the thread is still alive.
DisconnectJoin(c) ==
    /\ cpc[c] = "d_join"
    /\ cpc' = [cpc EXCEPT ![c] = "d_close"]
    /\ UNCHANGED <<linkVars, readerVars, cret, cdata, ch, cmode, deviceVars,
                   bridgeVars, histVars, wsVars, bcVars>>

\* disconnect(): if self.serial_port and self.serial_port.is_open: close()
DisconnectClose(c) ==
    /\ cpc[c] = "d_close"
    /\ hopen' = IF serial_port # None /\ serial_port \in hopen
                  THEN hopen \ {serial_port} ELSE hopen
    /\ cpc' = [cpc EXCEPT ![c] = "d_setopen"]
    /\ UNCHANGED <<serial_port, is_open, read_thread, running, lock, nopens,
                   readerVars, cret, cdata, ch, cmode, deviceVars, bridgeVars,
                   histVars, wsVars, bcVars>>

\* disconnect(): self.is_open = False
DisconnectSetOpen(c) ==
    /\ cpc[c] = "d_setopen"
    /\ is_open' = FALSE
    /\ cpc' = [cpc EXCEPT ![c] = "d_setnone"]
    /\ UNCHANGED <<serial_port, read_thread, running, lock, nopens, hopen,
                   readerVars, cret, cdata, ch, cmode, deviceVars, bridgeVars,
                   histVars, wsVars, bcVars>>

\* disconnect(): self.serial_port = None, the lock is released, disconnect returns.
DisconnectReturn(c) ==
    /\ cpc[c] = "d_setnone"
    /\ serial_port' = None
    /\ lock' = Free
    /\ cpc' = [cpc EXCEPT ![c] = AfterDisconnect(c)]
    /\ lastLink' = "disc"
    /\ UNCHANGED <<is_open, read_thread, running, nopens, hopen, readerVars,
                   cret, cdata, ch, cmode, deviceVars, bridgeVars, linkFailed,
                   devFaulted, cstart, wsVars, bcVars>>

\* reconnect_uart (main.py): entered; it calls disconnect(), then connect().
ReconnectBegin(c) ==
    /\ cpc[c] = "idle"
    /\ cpc' = [cpc EXCEPT ![c] = "rc_disc"]
    /\ cmode' = [cmode EXCEPT ![c] = "rc"]
    /\ cret' = [cret EXCEPT ![c] = "none"]
    /\ UNCHANGED <<linkVars, readerVars, cdata, ch, deviceVars, bridgeVars,
                   histVars, wsVars, bcVars>>

\* reconnect_uart: uart_status = uart_manager.get_status(); the response is
\* built from `success` (cret) and uart_status.
ReconnectStatus(c) ==
    /\ cpc[c] = "rc_status"
    /\ cpc' = [cpc EXCEPT ![c] = "idle"]
    /\ cmode' = [cmode EXCEPT ![c] = "none"]
    /\ cret' = [cret EXCEPT ![c] = "none"]
    /\ UNCHANGED <<linkVars, readerVars, cdata, ch, deviceVars, bridgeVars,
                   histVars, wsVars, bcVars>>

\* write() has decided what it returns, r: "true", "false", or "raised" for
\* an exception that leaves write().
WriteDecided(c, r) ==
    /\ cpc' = [cpc EXCEPT ![c] = "w_ret"]
    /\ cret' = [cret EXCEPT ![c] = r]

\* The link as write() finds it when it is called.
WriteStart == [open |-> is_open,
               closedCase |-> ~is_open /\ lastLink \in {"none", "connF", "disc"},
               failed |-> linkFailed,
               dev |-> "-"]

\* The bytes a caller gives write(): what its client sent. Successive writes,
\* and the writes of different threads, are given different bytes.
WriteData(c) ==
    IF (Len(devOut) + (IF c = LoopThread THEN 1 ELSE 2)) % 2 = 1
      THEN <<72, 101>> ELSE <<1, 2>>

\* write(data): `if not self.serial_port` (first half of line 107).
WriteCheck1(c) ==
    /\ cpc[c] = "idle"
    /\ Len(devOut) < MaxWrites
    /\ cdata' = [cdata EXCEPT ![c] = WriteData(c)]
    /\ cstart' = [cstart EXCEPT ![c] = WriteStart]
    /\ IF serial_port = None
         THEN WriteDecided(c, "false")
         ELSE /\ cpc' = [cpc EXCEPT ![c] = "w_chk2"]
              /\ UNCHANGED cret
    /\ UNCHANGED <<linkVars, readerVars, ch, cmode, deviceVars, bridgeVars,
                   lastLink, linkFailed, devFaulted, wsVars, bcVars>>

\* write(data): `or not self.serial_port.is_open` (second half of line 107):
\* self.serial_port is read again, outside the try; on None the attribute
\* access raises AttributeError out of write().
WriteCheck2(c) ==
    /\ cpc[c] = "w_chk2"
    /\ IF serial_port = None
         THEN WriteDecided(c, "raised")
         ELSE IF serial_port \notin hopen
                THEN WriteDecided(c, "false")
                ELSE /\ cpc' = [cpc EXCEPT ![c] = "w_call"]
                     /\ UNCHANGED cret
    /\ UNCHANGED <<linkVars, readerVars, cdata, ch, cmode, deviceVars,
                   bridgeVars, histVars, wsVars, bcVars>>

\* write(data): self.serial_port.write(data) is entered (line 112); on None
\* the AttributeError is caught by `except Exception` and write returns False.
WriteCall(c) ==
    /\ cpc[c] = "w_call"
    /\ IF serial_port = None
         THEN /\ WriteDecided(c, "false")
              /\ UNCHANGED ch
         ELSE /\ ch' = [ch EXCEPT ![c] = serial_port]
              /\ cpc' = [cpc EXCEPT ![c] = "w_dev"]
              /\ UNCHANGED cret
    /\ UNCHANGED <<linkVars, readerVars, cdata, cmode, deviceVars,
                   bridgeVars, histVars, wsVars, bcVars>>

\* What the device does with write(data); flush() on a handle that is open:
\*   ok       all of data is taken and flushed
\*   timeout  serial.SerialTimeoutException, nothing taken
\*   error    serial.SerialException, nothing taken
\*   flush    data taken by write(), flush() raises
WriteOutcomes == {"ok", "timeout", "error", "flush"}

\* What the device is handed when write() is given data.
Handed(data) == data

\* write(data) whose except clauses mark the link closed, as the reader
\* loop's handler does.
WriteDeviceClosesLink(c) ==
    /\ cpc[c] = "w_dev"
    /\ \E o \in WriteOutcomes :
         IF ch[c] \notin hopen
           THEN /\ WriteDecided(c, "false")
                /\ UNCHANGED <<devOut, cstart, is_open>>
           ELSE /\ devOut' = IF o \in {"ok", "flush"}
                               THEN Append(devOut, Handed(cdata[c]))
                               ELSE devOut
                /\ cstart' = [cstart EXCEPT ![c].dev = o]
                /\ is_open' = (is_open /\ o = "ok")
                /\ WriteDecided(c, IF o = "ok" THEN "true" ELSE "false")
    /\ ch' = [ch EXCEPT ![c] = None]
    /\ hopen' = Collected(hopen, serial_port, HeldBy(Threads, Callers \ {c}))
    /\ UNCHANGED <<serial_port, read_thread, running, lock, nopens,
                   readerVars, cdata, cmode, nread, bridgeVars,
                   lastLink, linkFailed, devFaulted, wsVars, bcVars>>

\* write(data): the device call (lines 112-113) returns or raises, and write
\* returns True or, from one of its except clauses, False. On a handle closed
\* meanwhile pyserial raises PortNotOpenError, a SerialException.
WriteDevice(c) ==
    /\ cpc[c] = "w_dev"
    /\ \E o \in WriteOutcomes :
         IF ch[c] \notin hopen
           THEN /\ WriteDecided(c, "false")
                /\ UNCHANGED <<devOut, cstart>>
           ELSE /\ devOut' = IF o \in {"ok", "flush"}
                               THEN Append(devOut, Handed(cdata[c]))
                               ELSE devOut
                /\ cstart' = [cstart EXCEPT ![c].dev = o]
                /\ WriteDecided(c, IF o = "ok" THEN "true" ELSE "false")
    /\ ch' = [ch EXCEPT ![c] = None]
    /\ hopen' = Collected(hopen, serial_port, HeldBy(Threads, Callers \ {c}))
    /\ UNCHANGED <<serial_port, is_open, read_thread, running, lock, nopens,
                   readerVars, cdata, cmode, nread, bridgeVars,
                   lastLink, linkFailed, devFaulted, wsVars, bcVars>>

\* write() returns (or raises) to its caller.
WriteReturn(c) ==
    /\ cpc[c] = "w_ret"
    /\ cpc' = [cpc EXCEPT ![c] = "idle"]
    /\ cret' = [cret EXCEPT ![c] = "none"]
    /\ cdata' = [cdata EXCEPT ![c] = <<>>]
    /\ cstart' = [cstart EXCEPT ![c] = NoStart]
    /\ UNCHANGED <<linkVars, readerVars, ch, cmode, deviceVars, bridgeVars,
                   lastLink, linkFailed, devFaulted, wsVars, bcVars>>

\* ------------------------------------------------------------ bridge glue

\* asyncio.get_event_loop() called on thread th, a reader or a caller thread
\* (websocket_handler.py:91): the
\* loop is current only in the thread that runs it; in any other thread no
\* loop is set and the call raises RuntimeError.
GetEventLoopRaises(kind, th) == kind # "caller" \/ th # LoopThread

\* broadcast_uart_data(data) called on thread th with chunk k: the broadcast is
\* handed to the event loop, or the exception is caught and logged and the
\* chunk is gone.
BroadcastUartData(kind, th, k) ==
    IF GetEventLoopRaises(kind, th)
      THEN /\ dropped' = dropped \cup {k}
           /\ UNCHANGED scheduled
      ELSE /\ scheduled' = Append(scheduled, k)
           /\ UNCHANGED dropped

\* --------------------------------------------------------- the reader loop

\* How an access to a closed serial.Serial fails: with a SerialException
\* (PortNotOpenError, a failed read) or with another exception (a TypeError on
\* the file descriptor that close() set to None).
ClosedFaults == {"serial", "other"}

\* `while self.running` (line 82)
ReadTestRunning(t) ==
    /\ rpc[t] = "t1"
    /\ rpc' = [rpc EXCEPT ![t] = IF running THEN "t2" ELSE "done"]
    /\ UNCHANGED <<linkVars, rh, rdata, callerVars, deviceVars, bridgeVars,
                   histVars, wsVars, bcVars>>

\* `and self.serial_port` (line 82)
ReadTestPort(t) ==
    /\ rpc[t] = "t2"
    /\ rpc' = [rpc EXCEPT ![t] = IF serial_port # None THEN "t3" ELSE "done"]
    /\ UNCHANGED <<linkVars, rh, rdata, callerVars, deviceVars, bridgeVars,
                   histVars, wsVars, bcVars>>

\* `and self.serial_port.is_open` (line 82): self.serial_port is read again;
\* on None the AttributeError is raised outside the try and ends the thread.
ReadTestOpen(t) ==
    /\ rpc[t] = "t3"
    /\ rpc' = [rpc EXCEPT ![t] =
                 IF serial_port = None THEN "crashed"
                 ELSE IF serial_port \in hopen THEN "poll" ELSE "done"]
    /\ UNCHANGED <<linkVars, rh, rdata, callerVars, deviceVars, bridgeVars,
                   histVars, wsVars, bcVars>>

\* `self.serial_port.in_waiting` is entered (line 84); on None the
\* AttributeError is caught by `except Exception` and the loop goes on.
ReadPollEnter(t) ==
    /\ rpc[t] = "poll"
    /\ IF serial_port = None
         THEN /\ rpc' = [rpc EXCEPT ![t] = "t1"]
              /\ UNCHANGED rh
         ELSE /\ rpc' = [rpc EXCEPT ![t] = "inwait"]
              /\ rh' = [rh EXCEPT ![t] = serial_port]
    /\ UNCHANGED <<linkVars, rdata, callerVars, deviceVars, bridgeVars,
                   histVars, wsVars, bcVars>>

\* in_waiting returns 0 ("zero"), more ("avail"), or the device fails and the
\* call raises a SerialException ("fault") or an exception of another class
\* ("oserror": the OSError of the ioctl behind in_waiting).
ReadPollReturn(t) ==
    /\ rpc[t] = "inwait"
    /\ IF rh[t] \notin hopen
         THEN /\ \E f \in ClosedFaults :
                   rpc' = [rpc EXCEPT ![t] = IF f = "serial" THEN "err" ELSE "t1"]
              /\ UNCHANGED devFaulted
         ELSE \E o \in {"zero", "fault", "oserror"} \cup
                       (IF nread < MaxChunks THEN {"avail"} ELSE {}) :
                /\ rpc' = [rpc EXCEPT ![t] =
                             CASE o = "zero" -> "t1"
                               [] o = "avail" -> "rd"
                               [] o = "fault" -> "err"
                               [] o = "oserror" -> "t1"]
                /\ devFaulted' = (devFaulted \/ o \in {"fault", "oserror"})
    /\ rh' = [rh EXCEPT ![t] = None]
    /\ hopen' = Collected(hopen, serial_port, HeldBy(Threads \ {t}, Callers))
    /\ UNCHANGED <<serial_port, is_open, read_thread, running, lock, nopens,
                   rdata, callerVars, deviceVars, bridgeVars,
                   lastLink, linkFailed, cstart, wsVars, bcVars>>

\* `self.serial_port.read(self.serial_port.in_waiting)` is entered (line 85).
ReadEnter(t) ==
    /\ rpc[t] = "rd"
    /\ IF serial_port = None
         THEN /\ rpc' = [rpc EXCEPT ![t] = "t1"]
              /\ UNCHANGED rh
         ELSE /\ rpc' = [rpc EXCEPT ![t] = "inread"]
              /\ rh' = [rh EXCEPT ![t] = serial_port]
    /\ UNCHANGED <<linkVars, rdata, callerVars, deviceVars, bridgeVars,
                   histVars, wsVars, bcVars>>

\* read returns a chunk ("data"), nothing ("empty": the bytes were taken by
\* another read, the read timed out), or the device raises ("fault").
\* `if data:` sends an empty read back to the loop test.
ReadReturn(t) ==
    /\ rpc[t] = "inread"
    /\ IF rh[t] \notin hopen
         THEN /\ \E f \in ClosedFaults :
                   rpc' = [rpc EXCEPT ![t] = IF f = "serial" THEN "err" ELSE "t1"]
              /\ UNCHANGED <<devFaulted, nread, rdata>>
         ELSE \E o \in {"empty", "fault"} \cup
                       (IF nread < MaxChunks THEN {"data"} ELSE {}) :
                /\ rpc' = [rpc EXCEPT ![t] =
                             CASE o = "empty" -> "t1"
                               [] o = "data" -> "cb"
                               [] o = "fault" -> "err"]
                /\ nread' = IF o = "data" THEN nread + 1 ELSE nread
                /\ rdata' = [rdata EXCEPT ![t] =
                               IF o = "data" THEN nread + 1 ELSE None]
                /\ devFaulted' = (devFaulted \/ o = "fault")
    /\ rh' = [rh EXCEPT ![t] = None]
    /\ hopen' = Collected(hopen, serial_port, HeldBy(Threads \ {t}, Callers))
    /\ UNCHANGED <<serial_port, is_open, read_thread, running, lock, nopens,
                   callerVars, devOut, bridgeVars, lastLink,
                   linkFailed, cstart, wsVars, bcVars>>

\* The callback called with nothing catching what it raises: the exception
\* of asyncio.get_event_loop() ends the reader thread.
ReadCallbackUncaught(t) ==
    /\ rpc[t] = "cb"
    /\ cbCount' = [cbCount EXCEPT ![rdata[t]] = @ + 1]
    /\ BroadcastUartData("reader", t, rdata[t])
    /\ rpc' = [rpc EXCEPT ![t] =
                 IF GetEventLoopRaises("reader", t) THEN "crashed" ELSE "t1"]
    /\ rdata' = [rdata EXCEPT ![t] = None]
    /\ UNCHANGED <<linkVars, rh, callerVars, deviceVars, histVars, wsVars,
                   bcVars>>

\* `self.data_callback(data)` (lines 90-94): the callback registered by
\* WebSocketManager.__init__ is broadcast_uart_data, which catches all it raises.
ReadCallback(t) ==
    /\ rpc[t] = "cb"
    /\ cbCount' = [cbCount EXCEPT ![rdata[t]] = @ + 1]
    /\ BroadcastUartData("reader", t, rdata[t])
    /\ rpc' = [rpc EXCEPT ![t] = "t1"]
    /\ rdata' = [rdata EXCEPT ![t] = None]
    /\ UNCHANGED <<linkVars, rh, callerVars, deviceVars, histVars, wsVars,
                   bcVars>>

\* `except serial.SerialException`: self.is_open = False; break (lines 96-99)
ReadError(t) ==
    /\ rpc[t] = "err"
    /\ is_open' = FALSE
    /\ linkFailed' = TRUE
    /\ rpc' = [rpc EXCEPT ![t] = "done"]
    /\ UNCHANGED <<serial_port, read_thread, running, lock, nopens, hopen, rh,
                   rdata, callerVars, deviceVars, bridgeVars, lastLink,
                   devFaulted, cstart, wsVars, bcVars>>

\* ------------------------------------------------------ the link's behaviour

CallerStep(c) ==
    \/ ConnectAcquire(c)
    \/ ConnectOpen(c)
    \/ ConnectSetOpen(c)
    \/ ConnectSetRunning(c)
    \/ ConnectStartThread(c)
    \/ ConnectReturn(c)
    \/ DisconnectAcquire(c)
    \/ DisconnectJoin(c)
    \/ DisconnectClose(c)
    \/ DisconnectSetOpen(c)
    \/ DisconnectReturn(c)
    \/ ReconnectBegin(c)
    \/ ReconnectStatus(c)
    \/ WriteCheck1(c)
    \/ WriteCheck2(c)
    \/ WriteCall(c)
    \/ WriteDevice(c)
    \/ WriteReturn(c)

ReaderStep(t) ==
    \/ ReadTestRunning(t)
    \/ ReadTestPort(t)
    \/ ReadTestOpen(t)
    \/ ReadPollEnter(t)
    \/ ReadPollReturn(t)
    \/ ReadEnter(t)
    \/ ReadReturn(t)
    \/ ReadCallback(t)
    \/ ReadError(t)

Next ==
    \/ CallerStep(LoopThread)
    \/ \E t \in Threads : ReaderStep(t)

Spec == Init /\ [][Next]_vars

\* A thread that only calls write().
WriterStep(c) ==
    \/ WriteCheck1(c)
    \/ WriteCheck2(c)
    \/ WriteCall(c)
    \/ WriteDevice(c)
    \/ WriteReturn(c)

\* UARTManager called from two threads: the event-loop thread as in Spec, and
\* a second thread calling write() concurrently with it.
NextMt ==
    \/ CallerStep(LoopThread)
    \/ \E c \in Callers \ {LoopThread} : WriterStep(c)
    \/ \E t \in Threads : ReaderStep(t)

SpecMt == Init /\ [][NextMt]_vars

\* ------------------------------------- a callback that calls disconnect()
\* set_data_callback(fn) with fn calling self.disconnect(): disconnect() then
\* runs on the reader thread, inside `self.data_callback(data)` (line 92).

\* The value of the lock while a reader thread holds it.
ReaderLock == "reader"
CbPcs == {"cbd_join", "cbd_close", "cbd_setopen", "cbd_setnone"}

\* The callback is invoked and disconnect() enters `with self._lock:` and sets
\* self.running = False.
CbDisconnectAcquire(t) ==
    /\ rpc[t] = "cb"
    /\ lock = Free
    /\ lock' = ReaderLock
    /\ running' = FALSE
    /\ cbCount' = [cbCount EXCEPT ![rdata[t]] = @ + 1]
    /\ rpc' = [rpc EXCEPT ![t] = "cbd_join"]
    /\ UNCHANGED <<serial_port, is_open, read_thread, nopens, hopen, rh, rdata,
                   callerVars, deviceVars, dropped, scheduled, histVars,
                   wsVars, bcVars>>

\* disconnect(): `if self.read_thread and self.read_thread.is_alive():
\* self.read_thread.join(timeout=2)`. Thread.join on the current thread raises
\* RuntimeError: it leaves disconnect() through the `with`, which releases the
\* lock, and is caught around the callback (lines 93-94); the loop goes on.
\* The join of another thread returns when that thread ends or after 2 s.
CbDisconnectJoin(t) ==
    /\ rpc[t] = "cbd_join"
    /\ IF read_thread = t
         THEN /\ lock' = Free
              /\ rpc' = [rpc EXCEPT ![t] = "t1"]
              /\ rdata' = [rdata EXCEPT ![t] = None]
         ELSE /\ rpc' = [rpc EXCEPT ![t] = "cbd_close"]
              /\ UNCHANGED <<lock, rdata>>
    /\ UNCHANGED <<serial_port, is_open, read_thread, running, nopens, hopen,
                   rh, callerVars, deviceVars, bridgeVars, histVars, wsVars,
                   bcVars>>

\* disconnect(): if self.serial_port and self.serial_port.is_open: close()
CbDisconnectClose(t) ==
    /\ rpc[t] = "cbd_close"
    /\ hopen' = IF serial_port # None /\ serial_port \in hopen
                  THEN hopen \ {serial_port} ELSE hopen
    /\ rpc' = [rpc EXCEPT ![t] = "cbd_setopen"]
    /\ UNCHANGED <<serial_port, is_open, read_thread, running, lock, nopens,
                   rh, rdata, callerVars, deviceVars, bridgeVars, histVars,
                   wsVars, bcVars>>

\* disconnect(): self.is_open = False
CbDisconnectSetOpen(t) ==
    /\ rpc[t] = "cbd_setopen"
    /\ is_open' = FALSE
    /\ rpc' = [rpc EXCEPT ![t] = "cbd_setnone"]
    /\ UNCHANGED <<serial_port, read_thread, running, lock, nopens, hopen,
                   rh, rdata, callerVars, deviceVars, bridgeVars, histVars,
                   wsVars, bcVars>>

\* disconnect(): self.serial_port = None; the lock is released, disconnect and
\* the callback return, the loop goes on.
CbDisconnectReturn(t) ==
    /\ rpc[t] = "cbd_setnone"
    /\ serial_port' = None
    /\ lock' = Free
    /\ lastLink' = "disc"
    /\ rpc' = [rpc EXCEPT ![t] = "t1"]
    /\ rdata' = [rdata EXCEPT ![t] = None]
    /\ UNCHANGED <<is_open, read_thread, running, nopens, hopen, rh,
                   callerVars, deviceVars, bridgeVars, linkFailed, devFaulted,
                   cstart, wsVars, bcVars>>

CbStep(t) ==
    \/ CbDisconnectJoin(t)
    \/ CbDisconnectClose(t)
    \/ CbDisconnectSetOpen(t)
    \/ CbDisconnectReturn(t)

ReaderStepCb(t) ==
    \/ ReadTestRunning(t)
    \/ ReadTestPort(t)
    \/ ReadTestOpen(t)
    \/ ReadPollEnter(t)
    \/ ReadPollReturn(t)
    \/ ReadEnter(t)
    \/ ReadReturn(t)
    \/ ReadError(t)
    \/ CbDisconnectAcquire(t)
    \/ CbStep(t)

NextCb ==
    \/ CallerStep(LoopThread)
    \/ \E t \in Threads : ReaderStepCb(t)

SpecCb == Init /\ [][NextCb]_vars

\* ------------------------------------------------------- WebSocketManager
\* Coroutines run on one event loop: a step below is what a coroutine does
\* between two of its awaits. `async with self._lock` never waits, since no
\* coroutine awaits while it holds the lock.

\* What a session is sent: the InfoMessage of connect() or the bytes of a
\* broadcast. src is 0 for connect() and b for broadcast b; st is "pending"
\* while the send is awaited, then "ok", or "failed" when the send raised.
InfoEntry == [src |-> 0, kind |-> "text", type |-> "info",
              connected |-> StatusConnected, payload |-> <<>>, st |-> "pending"]
BytesEntry(b, message) ==
    [src |-> b, kind |-> "bytes", type |-> "-", connected |-> FALSE,
     payload |-> message, st |-> "pending"]

\* The log of session s with the pending send of src settled.
Settle(log, src, ok) ==
    [i \in 1..Len(log) |->
        IF log[i].src = src /\ log[i].st = "pending"
          THEN [log[i] EXCEPT !.st = IF ok THEN "ok" ELSE "failed"]
          ELSE log[i]]

InFlight(b) == bpc[b] = "send"

\* A join or a leave happens while these broadcasts are in flight.
Churn == [b \in Broadcasts |-> bchurn[b] \/ InFlight(b)]

\* connect(websocket): `await websocket.accept()` is entered.
SessionAccept(s) ==
    /\ spc[s] = "new"
    /\ spc' = [spc EXCEPT ![s] = "accept"]
    /\ UNCHANGED <<linkVars, readerVars, callerVars, deviceVars, bridgeVars,
                   histVars, active_connections, sent, bcVars>>

\* connect(websocket) that registers the session and awaits before it sends
\* the InfoMessage.
SessionJoinThenAwait(s) ==
    /\ spc[s] = "accept"
    /\ active_connections' = active_connections \cup {s}
    /\ spc' = [spc EXCEPT ![s] = "accept"]
    /\ bchurn' = Churn
    /\ UNCHANGED <<linkVars, readerVars, callerVars, deviceVars, bridgeVars,
                   histVars, sent, bpc, bmsg, bsnap, bleft, bcur, bdisc, bover>>

\* connect(websocket): accept() has returned; the session is added under the
\* lock, the InfoMessage is built from get_status() and send_info awaits
\* websocket.send_text (lines 23-37, 55-58).
SessionJoin(s) ==
    /\ spc[s] = "accept"
    /\ active_connections' = active_connections \cup {s}
    /\ sent' = [sent EXCEPT ![s] = Append(@, InfoEntry)]
    /\ spc' = [spc EXCEPT ![s] = "info"]
    /\ bchurn' = Churn
    /\ UNCHANGED <<linkVars, readerVars, callerVars, deviceVars, bridgeVars,
                   histVars, bpc, bmsg, bsnap, bleft, bcur, bdisc, bover>>

\* send_info that discards the session when send_text raises, as broadcast
\* does.
SessionInfoDoneDiscard(s) ==
    /\ spc[s] = "info"
    /\ \E ok \in BOOLEAN :
         /\ sent' = [sent EXCEPT ![s] = Settle(@, 0, ok)]
         /\ active_connections' =
               IF ok THEN active_connections ELSE active_connections \ {s}
    /\ spc' = [spc EXCEPT ![s] = "joined"]
    /\ UNCHANGED <<linkVars, readerVars, callerVars, deviceVars, bridgeVars,
                   histVars, bcVars>>

\* send_info: send_text has returned, or raised and the exception is logged;
\* connect() returns and websocket_endpoint waits for the client's bytes.
SessionInfoDone(s) ==
    /\ spc[s] = "info"
    /\ \E ok \in BOOLEAN : sent' = [sent EXCEPT ![s] = Settle(@, 0, ok)]
    /\ spc' = [spc EXCEPT ![s] = "joined"]
    /\ UNCHANGED <<linkVars, readerVars, callerVars, deviceVars, bridgeVars,
                   histVars, active_connections, bcVars>>

\* websocket_endpoint: receive_bytes raises (the client is gone) and
\* disconnect(websocket) discards the session under the lock.
SessionLeave(s) ==
    /\ spc[s] = "joined"
    /\ active_connections' = active_connections \ {s}
    /\ spc' = [spc EXCEPT ![s] = "left"]
    /\ bchurn' = Churn
    /\ UNCHANGED <<linkVars, readerVars, callerVars, deviceVars, bridgeVars,
                   histVars, sent, bpc, bmsg, bsnap, bleft, bcur, bdisc, bover>>

\* broadcast(message): `await connection.send_bytes(message)` is entered for
\* connection s.
SendBytes(b, s, message) ==
    /\ sent' = [sent EXCEPT ![s] = Append(@, BytesEntry(b, message))]
    /\ bcur' = [bcur EXCEPT ![b] = s]

\* broadcast(message) that ends by making the registry its snapshot less the
\* connections collected in `disconnected`.
PruneToSnapshot(b, disc) ==
    /\ active_connections' = bsnap[b] \ disc
    /\ bpc' = [bpc EXCEPT ![b] = "done"]
    /\ bcur' = [bcur EXCEPT ![b] = "-"]

\* broadcast(message): the pass is over; the connections collected in
\* `disconnected` are discarded under the lock (lines 80-83).
Prune(b, disc) ==
    /\ active_connections' = active_connections \ disc
    /\ bpc' = [bpc EXCEPT ![b] = "done"]
    /\ bcur' = [bcur EXCEPT ![b] = "-"]

\* The bytes of the b-th chunk read from the device, which is the message of
\* the b-th broadcast: successive chunks differ.
ChunkBytes(b) == IF b % 2 = 1 THEN <<72, 101>> ELSE <<1, 2>>

\* broadcast(message) starts: the registry is copied under the lock and the
\* first connection of the copy, in the set's iteration order, is sent to.
BroadcastStart(b) ==
    /\ bpc[b] = "none"
    /\ \A a \in Broadcasts : a < b => bpc[a] # "none"
    /\ LET p == ChunkBytes(b) IN
         /\ bmsg' = [bmsg EXCEPT ![b] = p]
         /\ bsnap' = [bsnap EXCEPT ![b] = active_connections]
         /\ IF active_connections = {}
              THEN /\ Prune(b, {})
                   /\ UNCHANGED <<sent, bleft>>
              ELSE \E s \in active_connections :
                     /\ SendBytes(b, s, p)
                     /\ bleft' = [bleft EXCEPT ![b] = active_connections \ {s}]
                     /\ bpc' = [bpc EXCEPT ![b] = "send"]
                     /\ UNCHANGED active_connections
    /\ bover' = [a \in Broadcasts |->
                   bover[a] \/ (\E o \in Broadcasts \ {b} : InFlight(o)
                                   /\ (a = b \/ a = o))]
    /\ UNCHANGED <<linkVars, readerVars, callerVars, deviceVars, bridgeVars,
                   histVars, spc, bdisc, bchurn>>

\* broadcast(message) that gives up the pass at the first send that raises.
BroadcastResumeAbort(b) ==
    /\ bpc[b] = "send"
    /\ \E ok \in BOOLEAN :
         LET disc == IF ok THEN bdisc[b] ELSE bdisc[b] \cup {bcur[b]}
             log == [sent EXCEPT ![bcur[b]] = Settle(@, b, ok)]
         IN /\ bdisc' = [bdisc EXCEPT ![b] = disc]
            /\ IF bleft[b] = {} \/ ~ok
                 THEN /\ Prune(b, disc)
                      /\ sent' = log
                      /\ UNCHANGED bleft
                 ELSE \E s \in bleft[b] :
                        /\ sent' = [log EXCEPT ![s] = Append(@, BytesEntry(b, bmsg[b]))]
                        /\ bcur' = [bcur EXCEPT ![b] = s]
                        /\ bleft' = [bleft EXCEPT ![b] = @ \ {s}]
                        /\ UNCHANGED <<active_connections, bpc>>
    /\ UNCHANGED <<linkVars, readerVars, callerVars, deviceVars, bridgeVars,
                   histVars, spc, bmsg, bsnap, bchurn, bover>>

\* broadcast(message) that discards a connection as soon as its send raises,
\* while the pass over the snapshot is still going on.
BroadcastResumeEagerPrune(b) ==
    /\ bpc[b] = "send"
    /\ \E ok \in BOOLEAN :
         LET disc == IF ok THEN bdisc[b] ELSE bdisc[b] \cup {bcur[b]}
             log == [sent EXCEPT ![bcur[b]] = Settle(@, b, ok)]
         IN /\ bdisc' = [bdisc EXCEPT ![b] = disc]
            /\ IF bleft[b] = {}
                 THEN /\ Prune(b, disc)
                      /\ sent' = log
                      /\ UNCHANGED bleft
                 ELSE \E s \in bleft[b] :
                        /\ sent' = [log EXCEPT ![s] = Append(@, BytesEntry(b, bmsg[b]))]
                        /\ bcur' = [bcur EXCEPT ![b] = s]
                        /\ bleft' = [bleft EXCEPT ![b] = @ \ {s}]
                        /\ active_connections' = active_connections \ disc
                        /\ UNCHANGED bpc
    /\ UNCHANGED <<linkVars, readerVars, callerVars, deviceVars, bridgeVars,
                   histVars, spc, bmsg, bsnap, bchurn, bover>>

\* broadcast(message): send_bytes has returned or raised; a connection whose
\* send raised is added to `disconnected`; the next connection is sent to, or
\* the loop is over and the disconnected ones are pruned.
BroadcastResume(b) ==
    /\ bpc[b] = "send"
    /\ \E ok \in BOOLEAN :
         LET disc == IF ok THEN bdisc[b] ELSE bdisc[b] \cup {bcur[b]}
             log == [sent EXCEPT ![bcur[b]] = Settle(@, b, ok)]
         IN /\ bdisc' = [bdisc EXCEPT ![b] = disc]
            /\ IF bleft[b] = {}
                 THEN /\ Prune(b, disc)
                      /\ sent' = log
                      /\ UNCHANGED bleft
                 ELSE \E s \in bleft[b] :
                        /\ sent' = [log EXCEPT ![s] = Append(@, BytesEntry(b, bmsg[b]))]
                        /\ bcur' = [bcur EXCEPT ![b] = s]
                        /\ bleft' = [bleft EXCEPT ![b] = @ \ {s}]
                        /\ UNCHANGED <<active_connections, bpc>>
    /\ UNCHANGED <<linkVars, readerVars, callerVars, deviceVars, bridgeVars,
                   histVars, spc, bmsg, bsnap, bchurn, bover>>

SessionStep(s) ==
    \/ SessionAccept(s)
    \/ SessionJoin(s)
    \/ SessionInfoDone(s)
    \/ SessionLeave(s)

BroadcastStep(b) ==
    \/ BroadcastStart(b)
    \/ BroadcastResume(b)

NextWs ==
    \/ \E s \in Sessions : SessionStep(s)
    \/ \E b \in Broadcasts : BroadcastStep(b)

SpecWs == Init /\ [][NextWs]_vars

\* ================================================================ claims

SentBy(s, src) == {i \in 1..Len(sent[s]) : sent[s][i].src = src}
ConnectPcs == {"c_open", "c_setopen", "c_setrun", "c_start", "c_ret"}
DisconnectPcs == {"d_join", "d_close", "d_setopen", "d_setnone"}
LinkFields == <<serial_port, read_thread, is_open, running, nopens, hopen, rpc>>

\* C1: whenever connect returns true, get_status().connected is true at that
\* point; whenever disconnect returns, connected is false; a disconnect right
\* after a disconnect leaves is_open false and serial_port absent.
C1_ConnectedAfterConnect ==
    \A c \in Callers :
        /\ (cpc[c] = "c_ret" /\ cret[c] = "true") => StatusConnected
        /\ cpc[c] = "d_setnone" => ~StatusConnected
        /\ (cpc[c] \in DisconnectPcs /\ lastLink = "disc" /\ cmode[c] = "none")
              => (~is_open /\ serial_port = None)

\* C2: a connect that finds the link open returns true and, from its first
\* step to its return, changes none of serial_port, read_thread, is_open,
\* running, the device handles and the reader threads.
C2_ConnectWhenOpenNoEffect ==
    [][\A c \in Callers :
         /\ (cpc[c] \in {"idle", "rc_conn"} /\ cpc'[c] \in ConnectPcs /\ is_open)
               => (cpc'[c] = "c_ret" /\ cret'[c] = "true" /\ UNCHANGED LinkFields)
         /\ (cpc[c] = "c_ret" /\ cpc'[c] # "c_ret") => UNCHANGED LinkFields
      ]_vars

\* C2 witness: a second connect, on the open link, is about to return true:
\* one handle only was ever opened and a connect has returned true before.
C2_Witness ==
    /\ cpc[LoopThread] = "c_ret"
    /\ cret[LoopThread] = "true"
    /\ lastLink = "connT"
    /\ nopens = 1
    /\ is_open

\* C3: a write called while the link is not Open (no connect has succeeded,
\* the last connect failed, or disconnect has returned) returns false, does
\* not raise and hands the device nothing; a write called while the link is
\* Open, on a device that takes the data, hands it exactly the bytes given and
\* returns true.
C3_WriteFailsFastWhenClosed ==
    \A c \in Callers : cpc[c] = "w_ret" =>
        /\ cstart[c].closedCase =>
              (cret[c] = "false" /\ cstart[c].dev \notin {"ok", "flush"})
        /\ (cstart[c].open /\ cstart[c].dev = "ok") =>
              (/\ cret[c] = "true"
               /\ devOut # <<>>
               /\ devOut[Len(devOut)] = cdata[c])

\* C4: once a reader loop has reported the link failed after a read error, a
\* write called before a connect has returned true again returns false and
\* hands the device nothing.
C4_WriteFalseAfterReadError ==
    \A c \in Callers : (cpc[c] = "w_ret" /\ cstart[c].failed) =>
        (cret[c] = "false" /\ cstart[c].dev \notin {"ok", "flush"})

\* C5: when a broadcast is over, every session of its snapshot has been sent
\* the message exactly once, unmodified, whatever the other sends did, and no
\* other session was sent it; the serial link is as it was.
C5_BroadcastReachesAll ==
    /\ \A b \in Broadcasts : \A s \in Sessions :
          /\ Cardinality(SentBy(s, b)) <= 1
          /\ \A i \in SentBy(s, b) :
                sent[s][i].kind = "bytes" /\ sent[s][i].payload = bmsg[b]
          /\ bpc[b] = "done" =>
                /\ (s \in bsnap[b] <=> SentBy(s, b) # {})
                /\ \A i \in SentBy(s, b) : sent[s][i].st \in {"ok", "failed"}
                /\ \A i \in SentBy(s, b) :
                      sent[s][i].st = "failed" <=> s \in bdisc[b]
    /\ ~is_open /\ serial_port = None /\ ~running /\ hopen = {}

\* C5 witness: a broadcast over both sessions is over; one send failed, the
\* other session received the message.
C5_Witness ==
    \E b \in Broadcasts : \E s \in Sessions :
        /\ bpc[b] = "done"
        /\ bsnap[b] = Sessions
        /\ bdisc[b] = Sessions \ {s}
        /\ \E i \in SentBy(s, b) : sent[s][i].st = "ok"

Quiescent ==
    /\ \A s \in Sessions : spc[s] \notin {"accept", "info"}
    /\ \A b \in Broadcasts : ~InFlight(b)
Registered == {s \in Sessions : spc[s] \in {"info", "joined"}}
FailedInSome == UNION {bdisc[b] : b \in Broadcasts}

\* Once no call is in flight the registry holds the sessions that joined and
\* have not left, less those whose send failed in some broadcast.
RegistryAccount ==
    Quiescent => active_connections = Registered \ FailedInSome

\* A session leaves the registry by its own leave, or in the last step of a
\* broadcast that has been through all of its snapshot and in which the
\* session's send failed.
PrunedAfterPass ==
    \A s \in Sessions : (s \in active_connections /\ s \notin active_connections') =>
        \/ spc'[s] = "left"
        \/ \E b \in Broadcasts :
              /\ bpc[b] = "send" /\ bpc'[b] = "done"
              /\ bleft[b] = {}
              /\ s \in bdisc'[b]

\* The broadcast that ends in this step leaves the count lower than at its
\* snapshot by the number of its failed sends.
CountDrop(b) ==
    (bpc[b] # "done" /\ bpc'[b] = "done") =>
        Cardinality(active_connections') =
            Cardinality(bsnap'[b]) - Cardinality(bdisc'[b])

\* C6 as stated: the registry accounts for joins, leaves and failed sends;
\* failed sessions are pruned only after the pass; and a broadcast with no
\* join or leave during it lowers get_connections_count() by exactly the
\* number of sessions whose send failed in it.
C6_RegistryAsStated ==
    /\ []RegistryAccount
    /\ [][/\ PrunedAfterPass
          /\ \A b \in Broadcasts : ~bchurn'[b] => CountDrop(b)]_vars

\* C6 amended: as C6, the count statement being for a broadcast that no join,
\* no leave and no other broadcast overlapped.
C6_RegistryAccounting ==
    /\ []RegistryAccount
    /\ [][/\ PrunedAfterPass
          /\ \A b \in Broadcasts : (~bchurn'[b] /\ ~bover'[b]) => CountDrop(b)]_vars

\* C6 witness: a broadcast that nothing overlapped is over and the session
\* whose send failed is gone from the registry, the other one still in it.
C6_Witness ==
    \E b \in Broadcasts :
        /\ bpc[b] = "done"
        /\ ~bchurn[b] /\ ~bover[b]
        /\ bsnap[b] = Sessions
        /\ Cardinality(bdisc[b]) = 1
        /\ active_connections = Sessions \ bdisc[b]

\* C7: the first thing a session is sent is the InfoMessage of type info with
\* the link status, it is sent once, and a registered session has been sent
\* it: no broadcast reaches a session before it.
C7_InfoFirst ==
    \A s \in Sessions :
        /\ s \in active_connections => Len(sent[s]) >= 1
        /\ Len(sent[s]) >= 1 =>
              /\ sent[s][1].src = 0
              /\ sent[s][1].kind = "text"
              /\ sent[s][1].type = "info"
              /\ sent[s][1].connected = StatusConnected
        /\ Cardinality(SentBy(s, 0)) <= 1

\* C7 witness: a broadcast has sent to a session whose info send is still
\* awaited.
C7_Witness ==
    \E s \in Sessions :
        /\ Len(sent[s]) >= 2
        /\ sent[s][1].st = "pending"
        /\ sent[s][2].kind = "bytes"

\* C8: when the reconnect sequence is over, connected is true if the device
\* was opened (and raised no read error since), and if it could not be opened
\* connected is false, serial_port is absent and no device handle is open.
C8_ReconnectOutcome ==
    \A c \in Callers : cpc[c] = "rc_status" =>
        /\ (cret[c] = "true" /\ ~devFaulted) => StatusConnected
        /\ cret[c] = "false" =>
              (~StatusConnected /\ serial_port = None /\ hopen = {})

\* C9: every chunk the reader loop has passed to the callback has a broadcast
\* scheduled on the event loop, from which the sessions are sent it.
C9_ChunkIsBroadcast ==
    \A k \in Chunks : cbCount[k] > 0 =>
        \E i \in 1..Len(scheduled) : scheduled[i] = k

\* C10: outside connect and disconnect, is_open holds exactly when serial_port
\* holds an open handle and the reader loop started for it is running.
C10_OpenIffHandleAndReader ==
    lock = Free =>
        (is_open <=> (/\ serial_port # None
                      /\ serial_port \in hopen
                      /\ Alive(serial_port)))

\* A caller thread is inside the device write/flush; a reader thread is inside
\* in_waiting/read.
InWrite(c) == cpc[c] = "w_dev"
InRead(t) == rpc[t] \in {"inwait", "inread"}

\* C11: no two threads are inside the device write/flush at once, no handle
\* is closed while a thread is inside write/flush on it, and a write in
\* progress can always take its next step, whatever the reader loop is doing.
C11_WritesSerialized ==
    /\ [](\A c, d \in Callers : (InWrite(c) /\ InWrite(d)) => c = d)
    /\ [][\A c \in Callers :
            (InWrite(c) /\ InWrite(c)' /\ ch[c] \in hopen) => ch[c] \in hopen']_vars
    /\ [](\A c \in Callers :
            cpc[c] \in {"w_chk2", "w_call", "w_dev"} => ENABLED WriterStep(c))

\* C12: no handle is closed by disconnect while a reader thread is inside
\* in_waiting/read on it.
C12_NoCloseDuringRead ==
    [][\A c \in Callers :
         (cpc[c] = "d_close" /\ cpc'[c] = "d_setopen" /\ serial_port \in hopen)
            => \A t \in Threads : ~(InRead(t) /\ rh[t] = serial_port)]_vars

\* C13: a session that is sent the messages of two broadcasts is sent them in
\* the order in which the broadcasts were invoked (their numbers).
C13_PerSessionOrder ==
    \A s \in Sessions : \A i, j \in 1..Len(sent[s]) :
        (i < j /\ sent[s][i].kind = "bytes" /\ sent[s][j].kind = "bytes")
            => sent[s][i].src < sent[s][j].src

\* C14: disconnect() called from the callback, on the reader thread, is never
\* stuck once it holds the lock, and when the call is over the handle that
\* serial_port held is closed, is_open is false and serial_port is None.
C14_DisconnectFromCallback ==
    /\ [](\A t \in Threads : rpc[t] \in CbPcs => ENABLED CbStep(t))
    /\ [][\A t \in Threads :
            (rpc[t] \in CbPcs /\ rpc'[t] \notin CbPcs)
               => /\ ~is_open'
                  /\ serial_port' = None
                  /\ (serial_port # None => serial_port \notin hopen')]_vars

\* C15: a device error raised by in_waiting/read, of whatever class, sends
\* the reader to the handler that ends the loop; and once the device has
\* failed and that handler has run, the link is not connected and no reader
\* loop runs, until a connect opens the device again.
C15_ReadErrorEndsLoop ==
    /\ [][\A t \in Threads :
            (InRead(t) /\ rpc'[t] # rpc[t] /\ ~devFaulted /\ devFaulted')
               => rpc'[t] = "err"]_vars
    /\ []((devFaulted /\ \A t \in Threads : rpc[t] # "err")
            => (~StatusConnected /\ \A t \in Threads : ~Alive(t)))

WriteFailures == {"timeout", "error", "flush"}

\* C16: a write whose device call fails with a timeout or a device error
\* returns false, and neither that step nor its return changes is_open,
\* running, serial_port, read_thread or the position of any reader loop; the
\* handle stays open.
C16_WriteFailureKeepsLink ==
    [][\A c \in Callers :
         /\ (cpc[c] = "w_dev" /\ cpc'[c] = "w_ret"
                /\ cstart'[c].dev \in WriteFailures)
               => /\ cret'[c] = "false"
                  /\ UNCHANGED <<serial_port, is_open, running, read_thread, rpc>>
                  /\ ch[c] \in hopen'
         /\ (cpc[c] = "w_ret" /\ cpc'[c] = "idle")
               => UNCHANGED <<serial_port, is_open, running, read_thread, rpc,
                              hopen>>]_vars

\* C16 witness: a write on the open link, with its reader loop running, is
\* about to return false after a write timeout.
C16_Witness ==
    \E c \in Callers :
        /\ cpc[c] = "w_ret"
        /\ cstart[c].dev = "timeout"
        /\ cret[c] = "false"
        /\ is_open
        /\ read_thread # None
        /\ Alive(read_thread)

\* C17: when the send of send_info raises, send_info returns to its caller
\* (connect() goes on to its return) and the step leaves the registry as it
\* was: the session stays registered.
C17_DirectedSendFailureKeepsSession ==
    [][\A s \in Sessions :
         (spc[s] = "info" /\ spc'[s] # "info" /\ sent'[s][1].st = "failed")
            => /\ spc'[s] = "joined"
               /\ UNCHANGED active_connections
               /\ (s \in active_connections => s \in active_connections')]_vars

\* C17 witness: the InfoMessage send to a session failed and the session is
\* registered, its connect() over.
C17_Witness ==
    \E s \in Sessions :
        /\ spc[s] = "joined"
        /\ sent[s][1].st = "failed"
        /\ s \in active_connections

\* The reader threads that hold chunk k, read and not yet passed on.
Holding(k) == {t \in Threads : rdata[t] = k}

\* C18: every chunk read is passed to the callback exactly once (it is held
\* by the thread that read it, or it has been passed once); and the callback
\* step, whatever the callback raised, takes the reader back to the loop test
\* and changes neither is_open, running, serial_port, read_thread nor the open
\* handles.
C18_CallbackOncePerChunk ==
    /\ [](\A k \in Chunks :
            /\ cbCount[k] <= 1
            /\ k <= nread => cbCount[k] + Cardinality(Holding(k)) = 1
            /\ k > nread => cbCount[k] = 0)
    /\ [][\A t \in Threads :
            (rpc[t] = "cb" /\ rpc'[t] # "cb")
               => /\ rpc'[t] = "t1"
                  /\ cbCount'[rdata[t]] = cbCount[rdata[t]] + 1
                  /\ UNCHANGED <<is_open, running, serial_port, read_thread,
                                 hopen>>]_vars

\* C18 witness: in one Open episode two chunks were read and each passed to
\* the callback, which failed on the first (no broadcast could be scheduled);
\* the link is still Open.
C18_Witness ==
    /\ nopens = 1
    /\ is_open
    /\ cbCount[1] = 1
    /\ cbCount[2] = 1
    /\ 1 \in dropped

\* C19: a broadcast sends to the sessions of its snapshot only, at any point
\* of its pass and whatever joins or leaves meanwhile; when it is over each
\* of them has been sent the message once; and its last step removes from
\* the registry only the sessions whose send failed in it, so a session that
\* joined after the snapshot is still registered.
C19_SnapshotDelivery ==
    /\ [](\A b \in Broadcasts :
            /\ bleft[b] \subseteq bsnap[b]
            /\ \A s \in Sessions :
                  /\ SentBy(s, b) # {} => s \in bsnap[b] \ bleft[b]
                  /\ Cardinality(SentBy(s, b)) <= 1
                  /\ (bpc[b] = "done" /\ s \in bsnap[b])
                        => Cardinality(SentBy(s, b)) = 1)
    /\ [][\A b \in Broadcasts :
            (bpc[b] = "send" /\ bpc'[b] = "done")
               => active_connections' = active_connections \ bdisc'[b]]_vars

\* C19 witness: a broadcast over a snapshot of one session is over; the other
\* session joined during it, was sent nothing of it and is registered.
C19_Witness ==
    \E b \in Broadcasts : \E s \in Sessions :
        /\ bpc[b] = "done"
        /\ bchurn[b]
        /\ bsnap[b] = Sessions \ {s}
        /\ \A o \in bsnap[b] : spc[o] = "joined"
        /\ s \in active_connections
        /\ SentBy(s, b) = {}

\* C20: with disconnect running alongside writes and reader iterations, no
\* write ends by raising, no reader thread ends with an uncaught exception,
\* and a disconnect past its join can always go on and is about to return
\* with is_open false and the handle closed.
C20_DisconnectSafe ==
    /\ \A c \in Callers : cret[c] # "raised"
    /\ \A t \in Threads : rpc[t] # "crashed"
    /\ \A c \in Callers :
          /\ cpc[c] \in DisconnectPcs => ENABLED CallerStep(c)
          /\ cpc[c] = "d_setnone"
                => (~is_open /\ (serial_port # None => serial_port \notin hopen))

\* A reader thread is inside the device (in_waiting/read) or is about to call
\* the callback with the chunk it read.
ReaderActive(t) == InRead(t) \/ rpc[t] = "cb"

\* C21: at no time are two reader threads inside the device or the callback
\* together, whatever connect, disconnect (its join timed out or not) and
\* reconnect calls came before.
C21_OneReaderActive ==
    \A t, u \in Threads : (ReaderActive(t) /\ ReaderActive(u)) => t = u

\* C22: no handle is open other than the one serial_port holds, so at most
\* one is open and none is leaked; and no step binds serial_port to a new
\* handle while the handle it held is still open.
C22_OneHandleNoneLeaked ==
    /\ [](\A h \in hopen : h = serial_port)
    /\ [][(serial_port' # serial_port /\ serial_port' # None)
            => (serial_port = None \/ serial_port \notin hopen)]_vars

====
